---- MODULE Spec2Model ----
(***************************************************************************)
(* revoco: control of the wheel of Logitech's MX-Revolution mouse through  *)
(* hiddev.  The model follows src/revoco.c: main, open_dev, init_dev,      *)
(* configure and the report channel (send_report, query_report), with the  *)
(* argument parser (onearg, twoargs, nargs over strtol) as operators.      *)
(*                                                                         *)
(* A C string is a sequence of one-character strings.  The device layer    *)
(* (open, ioctl, fcntl, select, read) is the environment: every call picks *)
(* its outcome nondeterministically.                                       *)
(***************************************************************************)
EXTENDS Integers, Sequences, FiniteSets, TLC

(***************************************************************************)
(* Bounds of the model.                                                    *)
(***************************************************************************)
\* largest number of tokens on a command line with several tokens
MaxArgs == 3
\* largest number of input events a dump token prints before its wait ends
MaxDump == 1

(***************************************************************************)
(* Program constants.                                                      *)
(***************************************************************************)
LOGITECH == 1133          \* 0x046d
MX_REVOLUTION == 50458    \* 0xc51a
MX_REVOLUTION2 == 50469   \* 0xc525
MX_5500 == 50972          \* 0xc71c
\* open_dev tries the indices 0 .. NumNodes-1 of a path pattern
NumNodes == 16
\* the report id of every 6 byte command
REPORT_ID == 16           \* 0x10
\* number of values nargs parses for a raw token
RawBufLen == 256

(***************************************************************************)
(* C strings.                                                              *)
(***************************************************************************)
Min(a, b) == IF a < b THEN a ELSE b

Drop(s, n) == SubSeq(s, n + 1, Len(s))

\* strncmp(a, b, n) == 0 for strings without embedded NUL
strneq(a, b, n) == SubSeq(a, 1, Min(n, Len(a))) = SubSeq(b, 1, Min(n, Len(b)))

\* strcmp(a, b) == 0
streq(a, b) == a = b

S_temp == <<"t", "e", "m", "p", "-">>
S_free == <<"f", "r", "e", "e">>
S_click == <<"c", "l", "i", "c", "k">>
S_manual == <<"m", "a", "n", "u", "a", "l">>
S_auto == <<"a", "u", "t", "o">>
S_soft_free == <<"s", "o", "f", "t", "-", "f", "r", "e", "e">>
S_soft_click == <<"s", "o", "f", "t", "-", "c", "l", "i", "c", "k">>
S_reconnect == <<"r", "e", "c", "o", "n", "n", "e", "c", "t">>
S_mode == <<"m", "o", "d", "e">>
S_battery == <<"b", "a", "t", "t", "e", "r", "y">>
S_raw == <<"r", "a", "w">>
S_query == <<"q", "u", "e", "r", "y">>
S_dump == <<"d", "u", "m", "p">>
S_sleep == <<"s", "l", "e", "e", "p">>
S_h == <<"-", "h">>
S_help == <<"-", "-", "h", "e", "l", "p">>

(***************************************************************************)
(* strtol(str, &end, 0): skips white space, takes an optional sign, picks  *)
(* the base from the prefix (0x: 16, 0: 8, else 10) and converts the       *)
(* longest run of digits of that base.  The result is the value and the    *)
(* number of characters consumed (0: no conversion, end == str).  The      *)
(* numerals of the token universe are short, so the clamp to LONG_MAX is   *)
(* never reached.                                                          *)
(***************************************************************************)
HexChars == <<"0", "1", "2", "3", "4", "5", "6", "7", "8", "9",
              "a", "b", "c", "d", "e", "f">>
HexUpper == <<"0", "1", "2", "3", "4", "5", "6", "7", "8", "9",
              "A", "B", "C", "D", "E", "F">>

\* the value of a digit character, 99 for any other character
DigitVal(c) ==
    IF \E k \in 1..16 : HexChars[k] = c
    THEN (CHOOSE k \in 1..16 : HexChars[k] = c) - 1
    ELSE IF \E k \in 1..16 : HexUpper[k] = c
         THEN (CHOOSE k \in 1..16 : HexUpper[k] = c) - 1
         ELSE 99

isspace(c) == c \in {" ", "\t", "\n", "\r", "\f"}

RECURSIVE CountSpaces(_)
CountSpaces(s) ==
    IF s # <<>> /\ isspace(Head(s)) THEN 1 + CountSpaces(Tail(s)) ELSE 0

RECURSIVE ParseDigits(_, _, _, _)
ParseDigits(s, base, acc, cnt) ==
    IF s # <<>> /\ DigitVal(Head(s)) < base
    THEN ParseDigits(Tail(s), base, acc * base + DigitVal(Head(s)), cnt + 1)
    ELSE [n |-> acc, cnt |-> cnt]

\* the conversion proper: d is the run of digits, skipped the characters
\* before it (white space, sign, 0x)
strtol_conv(d, skipped, neg, hex) ==
    IF d.cnt = 0
    THEN IF hex THEN [n |-> 0, used |-> skipped - 1]   \* "0x": the 0 is taken
                ELSE [n |-> 0, used |-> 0]
    ELSE [n |-> IF neg THEN 0 - d.n ELSE d.n, used |-> skipped + d.cnt]

strtol_base(s2, skipped, neg) ==
    IF Len(s2) >= 2 /\ s2[1] = "0" /\ s2[2] \in {"x", "X"}
    THEN strtol_conv(ParseDigits(Drop(s2, 2), 16, 0, 0), skipped + 2, neg, TRUE)
    ELSE IF s2 # <<>> /\ s2[1] = "0"
    THEN strtol_conv(ParseDigits(s2, 8, 0, 0), skipped, neg, FALSE)
    ELSE strtol_conv(ParseDigits(s2, 10, 0, 0), skipped, neg, FALSE)

strtol_sign(s1, ws) ==
    IF s1 # <<>> /\ Head(s1) \in {"+", "-"}
    THEN strtol_base(Tail(s1), ws + 1, Head(s1) = "-")
    ELSE strtol_base(s1, ws, FALSE)

strtol(str) == strtol_sign(Drop(str, CountSpaces(str)), CountSpaces(str))

(***************************************************************************)
(* onearg: one optional numeric field introduced by prefix.  The result    *)
(* holds the error fatal() was called with ("" when it was not called),    *)
(* the value stored in *arg and the rest of the string (the return value). *)
(***************************************************************************)
\* after n = strtol(++str, &end, 0): c is strtol's result on str
onearg_conv(str, c, def, min, max) ==
    IF c.used = 0
    THEN [err |-> "", arg |-> def, rest |-> str]
    ELSE IF c.n < min \/ c.n > max
    THEN [err |-> "out of range", arg |-> c.n, rest |-> Drop(str, c.used)]
    ELSE [err |-> "", arg |-> c.n, rest |-> Drop(str, c.used)]

onearg(str, prefix, def, min, max) ==
    IF str = <<>>
    THEN [err |-> "", arg |-> def, rest |-> str]
    ELSE IF Head(str) # prefix
    THEN [err |-> "bad argument", arg |-> def, rest |-> str]
    ELSE onearg_conv(Tail(str), strtol(Tail(str)), def, min, max)

\* twoargs: two fields, the second one defaulting to the first
twoargs_end(a, b) ==
    IF b.err # "" THEN [err |-> b.err, arg1 |-> a.arg, arg2 |-> b.arg]
    ELSE IF b.rest # <<>>
    THEN [err |-> "malformed argument", arg1 |-> a.arg, arg2 |-> b.arg]
    ELSE [err |-> "", arg1 |-> a.arg, arg2 |-> b.arg]

\* twoargs checking the range of the first field only
twoargs_second_unchecked(a, min, max) ==
    IF a.err # "" THEN [err |-> a.err, arg1 |-> a.arg, arg2 |-> a.arg]
    ELSE twoargs_end(a, onearg(a.rest, ",", a.arg, 0 - 1000000, 1000000))

\* twoargs with a missing second field taken as 0
twoargs_second_zero_default(a, min, max) ==
    IF a.err # "" THEN [err |-> a.err, arg1 |-> a.arg, arg2 |-> a.arg]
    ELSE twoargs_end(a, onearg(a.rest, ",", 0, min, max))

twoargs_second(a, min, max) ==
    IF a.err # "" THEN [err |-> a.err, arg1 |-> a.arg, arg2 |-> a.arg]
    ELSE twoargs_end(a, onearg(a.rest, ",", a.arg, min, max))

twoargs(str, def, min, max) ==
    twoargs_second(onearg(str, "=", def, min, max), min, max)

\* nargs: n fields into buf; the result counts the fields that were present.
\* Once the string is used up, every remaining turn of the loop stores def
\* and leaves the count alone: the turns left are done in one step.
RECURSIVE nargs_loop(_, _, _, _, _, _, _, _)
nargs_turn(a, buf, n, i, def, min, max) ==
    IF a.err # ""
    THEN [err |-> a.err, buf |-> buf, n |-> i]
    ELSE nargs_loop(a.rest, Append(buf, a.arg), n - 1, i + 1, ",", def, min, max)

nargs_loop(p, buf, n, i, del, def, min, max) ==
    IF n = 0
    THEN [err |-> IF p # <<>> THEN "malformed argument" ELSE "", buf |-> buf, n |-> i]
    ELSE IF p = <<>>
    THEN [err |-> "", buf |-> buf \o [k \in 1..n |-> def], n |-> i]
    ELSE nargs_turn(onearg(p, del, def, min, max), buf, n, i, def, min, max)

nargs(str, n, def, min, max) == nargs_loop(str, <<>>, n, 0, "=", def, min, max)

(***************************************************************************)
(* printf conversions.                                                     *)
(***************************************************************************)
HexStr == <<"0", "1", "2", "3", "4", "5", "6", "7", "8", "9",
            "a", "b", "c", "d", "e", "f">>

RECURSIVE FmtHex(_)
FmtHex(n) == IF n < 16 THEN HexStr[n + 1]
             ELSE FmtHex(n \div 16) \o HexStr[(n % 16) + 1]

\* "%02x" of a value that is not negative
Fmt02x(n) == IF n < 16 THEN "0" \o HexStr[n + 1] ELSE FmtHex(n)

\* "%d"
FmtD(n) == ToString(n)

(***************************************************************************)
(* The command lines of the model.  A command line with one token takes it *)
(* from RichTokens; a longer one takes each token from Tokens.             *)
(***************************************************************************)
RECURSIVE Dec(_)
Dec(n) == IF n < 10 THEN <<HexChars[n + 1]>>
          ELSE Dec(n \div 10) \o <<HexChars[(n % 10) + 1]>>

F1(a) == <<"=">> \o Dec(a)
F2(a, b) == <<"=">> \o Dec(a) \o <<",">> \o Dec(b)

FieldLists(V) == {F1(a) : a \in V} \cup {F2(a, b) : a \in V, b \in V}

OddFields == { <<>>, <<"=">>, <<"=", ",", "5">>, <<"=", "3", ",">>,
               <<"=", "3", "x">>, <<",", "3">>, <<"=", "3", "=", "5">>,
               <<"=", "3", ",", "5", ",", "6">>, <<"=", "0", "x", "1", "0">>,
               <<"=", "0", "1", "0">>, <<"=", " ", "3">>, <<"=", "-", "1">>,
               <<"x">> }

Extra == { <<>>, <<"x">>, <<"=", "1">>, <<"=", "1", ",", "2">> }

Bare ==
    {S_manual \o f : f \in FieldLists({0, 3, 5, 15, 16}) \cup OddFields}
    \cup {S_auto \o f : f \in FieldLists({0, 10, 20, 50, 51}) \cup OddFields}
    \cup {S_soft_free \o f : f \in FieldLists({1, 255, 256}) \cup OddFields}
    \cup {S_soft_click \o f : f \in FieldLists({1, 255, 256}) \cup OddFields}
    \cup {n \o f : n \in {S_free, S_click, S_reconnect, S_mode, S_battery},
                   f \in Extra}
    \cup {S_raw \o f : f \in {<<>>, <<"=">>, F1(16), F2(16, 1), F2(16, 256),
                              F2(16, 1) \o <<",", "2">>, <<"x">>}}
    \cup {S_query \o f : f \in {<<>>, F1(16), F2(16, 2), F2(256, 2),
                                <<"=", ",", "2">>, <<"x">>}}
    \cup {S_dump \o f : f \in {<<>>, F1(0), <<"=", "-", "1">>, <<"=", "-", "2">>,
                               F2(1, 2), <<"x">>}}
    \cup {S_sleep \o f : f \in {<<>>, F1(2), F1(256), F2(1, 2), <<"x">>}}
    \cup {<<"f", "o", "o">>, <<"t", "e", "m", "p">>, <<>>}

RichTokens == Bare \cup {S_temp \o t : t \in Bare} \cup {S_h, S_help}

Tokens == { S_free, S_temp \o S_manual \o F2(3, 5), S_auto \o F1(51),
            S_soft_free \o F2(1, 2), S_mode, S_battery, <<"f", "o", "o">>,
            S_help }

(***************************************************************************)
(* The device layer's answers.                                             *)
(***************************************************************************)
NoInfo == [ok |-> FALSE, vendor |-> 0, product |-> 0]

\* what HIDIOCGDEVINFO can report of a node
DevInfos ==
    {NoInfo} \cup
    {[ok |-> TRUE, vendor |-> v, product |-> p] :
        v \in {LOGITECH, 1118},
        p \in {MX_REVOLUTION, MX_REVOLUTION2, MX_5500, 49182}}

\* wait_report: select() timed out or failed, or the handle was readable
\* and read() gave nothing, or events were read and dropped
FlushOutcomes == {"timeout", "failed", "empty", "events"}

\* errno of a failed open
OpenErrors == {"ENOENT", "EACCES", "EPERM", "EIO"}

(***************************************************************************)
(* State.                                                                  *)
(***************************************************************************)
VARIABLES
    pc,          \* the statement the process is at
    argc,        \* number of arguments, the program name included
    argv,        \* argv[1 .. ], as far as the program has read them
    i,           \* configure's loop index
    first_byte,  \* leading byte of the command frames
    path,        \* the path pattern open_dev is scanning: 1 = /dev/usb/hiddev%d
    idx,         \* open_dev's loop index
    fd,          \* open_dev's descriptor of the node examined, -1: none
    open,        \* the descriptors the process holds open
    dinfo,       \* what HIDIOCGDEVINFO returned for the node behind fd
    handle,      \* main's handle, -1: none
    cur,         \* the command configure is carrying out
    res,         \* the buffer query_report fills
    ndump,       \* events printed by the current dump token
    sent,        \* output reports committed to the device, with their token
    ops,         \* operations on the selected handle, in order
    out,         \* lines written to stdout, each with the token it belongs to
    err,         \* message fatal() wrote to stderr, "" if none
    exitcode,    \* exit status, -1 while the process runs
    flush        \* how the last wait_report of the current token went

vars == <<pc, argc, argv, i, first_byte, path, idx, fd, open, dinfo, handle,
          cur, res, ndump, sent, ops, out, err, exitcode, flush>>

NoCmd == [name |-> "", err |-> "", id |-> 0, buf |-> <<>>, n |-> 0,
          arg1 |-> 0, arg2 |-> 0]

Init ==
    /\ pc = "main"
    /\ argc \in 1..(MaxArgs + 1)
    /\ argv \in IF argc = 1 THEN {<<>>}
                ELSE IF argc = 2 THEN {<<t>> : t \in RichTokens}
                ELSE {<<t>> : t \in Tokens}
    /\ i = 0
    /\ first_byte = 0
    /\ path = 0
    /\ idx = 0
    /\ fd = -1
    /\ open = {}
    /\ dinfo = NoInfo
    /\ handle = -1
    /\ cur = NoCmd
    /\ res = <<>>
    /\ ndump = 0
    /\ sent = <<>>
    /\ ops = <<>>
    /\ out = <<>>
    /\ err = ""
    /\ exitcode = -1
    /\ flush = "none"

(***************************************************************************)
(* fatal: message to stderr, exit(1).                                      *)
(***************************************************************************)
\* a line of output, written while token tok is carried out (0: before any)
Line(tok, text) == [tok |-> tok, text |-> text]

fatal(msg) ==
    /\ err' = msg
    /\ exitcode' = 1
    /\ pc' = "exit"

\* open() returns the lowest descriptor that is free; 0, 1 and 2 are taken
LowestFree == CHOOSE n \in 3..(3 + Cardinality(open)) :
                  n \notin open /\ \A m \in 3..(n - 1) : m \in open

(***************************************************************************)
(* main, up to the search for the device.                                  *)
(***************************************************************************)
\* main showing the usage only when there is no argument
main_usage_no_args == argc < 2

\* argc < 2, or argv[1] is -h or --help
main_usage == argc < 2 \/ (argc > 1 /\ (streq(argv[1], S_h) \/ streq(argv[1], S_help)))

main ==
    /\ pc = "main"
    /\ IF main_usage
       THEN /\ out' = Append(out, Line(0, "usage"))
            /\ exitcode' = 0
            /\ pc' = "exit"
            /\ UNCHANGED <<path, idx>>
       ELSE /\ pc' = "open_dev"
            /\ path' = 1
            /\ idx' = 0
            /\ UNCHANGED <<out, exitcode>>
    /\ UNCHANGED <<argc, argv, i, first_byte, fd, open, dinfo, handle, cur, res,
                   ndump, sent, ops, err>>
    /\ UNCHANGED flush

(***************************************************************************)
(* open_dev: the loop over the 16 nodes of a path pattern.  main calls it  *)
(* for /dev/usb/hiddev%d and, if that returns -1, for /dev/hiddev%d.       *)
(***************************************************************************)
\* ++i; at the end of the loop return -1 to main
open_dev_continue ==
    IF idx + 1 < NumNodes
    THEN /\ idx' = idx + 1
         /\ pc' = "open_dev"
         /\ UNCHANGED path
    ELSE IF path = 1
    THEN /\ path' = 2
         /\ idx' = 0
         /\ pc' = "open_dev"
    ELSE /\ pc' = "trouble_shooting"
         /\ UNCHANGED <<path, idx>>

open_dev_open ==
    /\ pc = "open_dev"
    /\ \E ok \in BOOLEAN :
          IF ok
          THEN /\ fd' = LowestFree
               /\ open' = open \cup {LowestFree}
               /\ pc' = "open_dev_ident"
               /\ UNCHANGED <<path, idx>>
          ELSE /\ open_dev_continue
               /\ UNCHANGED <<fd, open>>
    /\ UNCHANGED <<argc, argv, i, first_byte, dinfo, handle, cur, res, ndump,
                   sent, ops, out, err, exitcode>>
    /\ UNCHANGED flush

\* the checks on the identity: whether open_dev returns fd, the value of
\* first_byte afterwards, and whether the MX-5500 note is printed
\* open_dev giving every selected device the leading byte 1
open_dev_match_one_lead(d, fb) ==
    IF d.ok /\ d.vendor = LOGITECH
    THEN IF d.product = MX_REVOLUTION \/ d.product = MX_REVOLUTION2
         THEN [ret |-> TRUE, first_byte |-> 1, note |-> FALSE]
         ELSE IF d.product = MX_5500
         THEN [ret |-> TRUE, first_byte |-> 1, note |-> TRUE]
         ELSE [ret |-> FALSE, first_byte |-> 1, note |-> FALSE]
    ELSE [ret |-> FALSE, first_byte |-> fb, note |-> FALSE]

open_dev_match(d, fb) ==
    IF d.ok /\ d.vendor = LOGITECH
    THEN IF d.product = MX_REVOLUTION \/ d.product = MX_REVOLUTION2
         THEN [ret |-> TRUE, first_byte |-> 1, note |-> FALSE]
         ELSE IF d.product = MX_5500
         THEN [ret |-> TRUE, first_byte |-> 2, note |-> TRUE]
         ELSE [ret |-> FALSE, first_byte |-> 1, note |-> FALSE]
    ELSE [ret |-> FALSE, first_byte |-> fb, note |-> FALSE]

open_dev_ident ==
    /\ pc = "open_dev_ident"
    /\ \E d \in DevInfos :
          LET m == open_dev_match(d, first_byte)
          IN  /\ dinfo' = d
              /\ first_byte' = m.first_byte
              /\ out' = IF m.note
                        THEN Append(out, Line(0, "note: MX-5500 support is experimental"))
                        ELSE out
              /\ IF m.ret
                 THEN \* return fd: open_dev's locals are gone
                      /\ handle' = fd
                      /\ fd' = -1
                      /\ path' = 0
                      /\ idx' = 0
                      /\ pc' = "init_dev_fcntl"
                 ELSE /\ pc' = "open_dev_close"
                      /\ UNCHANGED <<handle, fd, path, idx>>
    /\ UNCHANGED <<argc, argv, i, open, cur, res, ndump, sent, ops, err,
                   exitcode>>
    /\ UNCHANGED flush

\* open_dev going on to the next node without close(fd)
open_dev_close_leak ==
    /\ pc = "open_dev_close"
    /\ fd' = -1
    /\ dinfo' = NoInfo
    /\ open_dev_continue
    /\ UNCHANGED <<argc, argv, i, first_byte, open, handle, cur, res, ndump,
                   sent, ops, out, err, exitcode>>
    /\ UNCHANGED flush

open_dev_close ==
    /\ pc = "open_dev_close"
    /\ open' = open \ {fd}
    /\ fd' = -1
    /\ dinfo' = NoInfo
    /\ open_dev_continue
    /\ UNCHANGED <<argc, argv, i, first_byte, handle, cur, res, ndump, sent,
                   ops, out, err, exitcode>>
    /\ UNCHANGED flush

(***************************************************************************)
(* trouble_shooting: no device was found; every path ends in fatal().      *)
(***************************************************************************)
\* the message, from the outcome of open("/dev/hiddev0") and, after ENOENT,
\* of open("/dev/usb/hiddev0"); "ok" is a successful open
trouble_shooting_msg(r1, r2) ==
    LET r == IF r1 = "ENOENT" THEN r2 ELSE r1
    IN  IF r = "ok" THEN "No Logitech MX-Revolution found"
        ELSE IF r = "EPERM" \/ r = "EACCES" THEN "No permission to access hiddev"
        ELSE "Hiddev kernel driver not found"

\* trouble_shooting returning to main after its last message
trouble_shooting_return ==
    /\ pc = "trouble_shooting"
    /\ \E r1 \in OpenErrors \cup {"ok"}, r2 \in OpenErrors \cup {"ok"} :
          /\ open' = IF (IF r1 = "ENOENT" THEN r2 ELSE r1) = "ok"
                     THEN open \cup {LowestFree} ELSE open
          /\ IF trouble_shooting_msg(r1, r2) = "Hiddev kernel driver not found"
             THEN /\ pc' = "init_dev_fcntl"
                  /\ UNCHANGED <<err, exitcode>>
             ELSE fatal(trouble_shooting_msg(r1, r2))
    /\ UNCHANGED <<argc, argv, i, first_byte, path, idx, fd, dinfo, handle, cur,
                   res, ndump, sent, ops, out>>
    /\ UNCHANGED flush

trouble_shooting ==
    /\ pc = "trouble_shooting"
    /\ \E r1 \in OpenErrors \cup {"ok"}, r2 \in OpenErrors \cup {"ok"} :
          /\ open' = IF (IF r1 = "ENOENT" THEN r2 ELSE r1) = "ok"
                     THEN open \cup {LowestFree} ELSE open
          /\ fatal(trouble_shooting_msg(r1, r2))
    /\ UNCHANGED <<argc, argv, i, first_byte, path, idx, fd, dinfo, handle, cur,
                   res, ndump, sent, ops, out>>
    /\ UNCHANGED flush

(***************************************************************************)
(* init_dev: failures are reported on stdout and the run goes on.          *)
(***************************************************************************)
init_dev_fcntl ==
    /\ pc = "init_dev_fcntl"
    /\ \E ok \in BOOLEAN :
          /\ ops' = Append(ops, [op |-> "F_SETFL", ok |-> ok])
          /\ out' = IF ok THEN out ELSE Append(out, Line(0, "fcntl(O_NONBLOCK): error"))
    /\ pc' = "init_dev_flag"
    /\ UNCHANGED <<argc, argv, i, first_byte, path, idx, fd, open, dinfo, handle,
                   cur, res, ndump, sent, err, exitcode>>
    /\ UNCHANGED flush

init_dev_flag ==
    /\ pc = "init_dev_flag"
    /\ \E ok \in BOOLEAN :
          /\ ops' = Append(ops, [op |-> "HIDIOCSFLAG", ok |-> ok])
          /\ out' = IF ok THEN out ELSE Append(out, Line(0, "HIDIOCSFLAG: error"))
    /\ pc' = "configure"
    /\ i' = 1
    /\ UNCHANGED <<argc, argv, first_byte, path, idx, fd, open, dinfo, handle,
                   cur, res, ndump, sent, err, exitcode>>
    /\ UNCHANGED flush

(***************************************************************************)
(* The command frames.                                                     *)
(***************************************************************************)
\* mx_cmd with the leading byte of the first protocol variant built in
mx_cmd_fixed_lead(fb, b1, b2, b3) == <<1, 128, 86, b1, b2, b3>>

\* the buffer mx_cmd sends
mx_cmd(fb, b1, b2, b3) == <<fb, 128, 86, b1, b2, b3>>

\* the buffer mx_query sends
mx_query_cmd(fb, b1) == <<fb, 129, b1, 0, 0, 0>>

\* mx_query's check without the comparison of the first byte
mx_query_ok_no_lead(b1, r) == ~(r[2] # 129 \/ r[3] # b1)

\* mx_query's check of the answer: TRUE when it returns 1
mx_query_ok(b1, r) == ~(r[1] # 1 \/ r[2] # 129 \/ r[3] # b1)

\* the "bad answer" line
mx_query_bad(r) ==
    "bad answer (" \o Fmt02x(r[1]) \o " " \o Fmt02x(r[2]) \o " "
                   \o Fmt02x(r[3]) \o "...)"

reconnect_cmd == <<255, 128, 178, 1, 0, 0>>

Cmd(name, buf) == [name |-> name, err |-> "", id |-> REPORT_ID, buf |-> buf,
                   n |-> 6, arg1 |-> 0, arg2 |-> 0]

Fatal(name, msg) == [name |-> name, err |-> msg, id |-> 0, buf |-> <<>>,
                     n |-> 0, arg1 |-> 0, arg2 |-> 0]

(***************************************************************************)
(* configure, one turn of the loop up to the first device operation: the   *)
(* temp- prefix, the chain of comparisons and the parsing of the fields.   *)
(* The first four comparisons look at cmd (the token after temp-), the     *)
(* others at argv[i].                                                      *)
(***************************************************************************)
\* manual always sending the two-button form
manual_cmd_always_pair(a, perm, fb) ==
    IF a.err # "" THEN Fatal("manual", a.err)
    ELSE Cmd("manual", mx_cmd(fb, perm + 7, a.arg1 * 16 + a.arg2, 0))

manual_cmd(a, perm, fb) ==
    IF a.err # "" THEN Fatal("manual", a.err)
    ELSE IF a.arg1 # a.arg2
    THEN Cmd("manual", mx_cmd(fb, perm + 7, a.arg1 * 16 + a.arg2, 0))
    ELSE Cmd("manual", mx_cmd(fb, perm + 8, a.arg1, 0))

configure_manual(cmd, perm, fb) ==
    manual_cmd(twoargs(Drop(cmd, 6), 0, 0, 15), perm, fb)

auto_cmd(a, perm, fb) ==
    IF a.err # "" THEN Fatal("auto", a.err)
    ELSE Cmd("auto", mx_cmd(fb, perm + 5, a.arg1, a.arg2))

configure_auto(cmd, perm, fb) ==
    auto_cmd(twoargs(Drop(cmd, 4), 0, 0, 50), perm, fb)

soft_cmd(name, a, b1, fb) ==
    IF a.err # "" THEN Fatal(name, a.err)
    ELSE Cmd(name, mx_cmd(fb, b1, a.arg1, a.arg2))

configure_soft(name, str, b1, fb) ==
    soft_cmd(name, twoargs(str, 0, 0, 255), b1, fb)

reconnect_args(a) ==
    IF a.err # "" THEN Fatal("reconnect", a.err)
    ELSE Cmd("reconnect", reconnect_cmd)

configure_reconnect(str) == reconnect_args(twoargs(str, 0, 0, 255))

configure_query_cmd(name, b1, fb) ==
    [name |-> name, err |-> "", id |-> REPORT_ID, buf |-> mx_query_cmd(fb, b1),
     n |-> 6, arg1 |-> b1, arg2 |-> 0]

\* raw: send_report(handle, buf[0], buf+1, n-1)
raw_cmd(r) ==
    IF r.err # "" THEN Fatal("raw", r.err)
    ELSE [name |-> "raw", err |-> "", id |-> r.buf[1],
          buf |-> SubSeq(r.buf, 2, r.n), n |-> r.n - 1, arg1 |-> 0, arg2 |-> 0]

configure_raw(str) == raw_cmd(nargs(str, RawBufLen, 0, 0, 255))

\* query: query_report(handle, arg1, buf, arg2)
query_cmd(a) ==
    IF a.err # "" THEN Fatal("query", a.err)
    ELSE IF a.arg1 = -1
    THEN [name |-> "query", err |-> "", id |-> REPORT_ID, buf |-> <<>>,
          n |-> 6, arg1 |-> REPORT_ID, arg2 |-> 6]
    ELSE [name |-> "query", err |-> "", id |-> a.arg1, buf |-> <<>>,
          n |-> a.arg2, arg1 |-> a.arg1, arg2 |-> a.arg2]

configure_query(str) == query_cmd(twoargs(str, -1, 0, 255))

\* dump: arg1 is the timeout of wait_for_input in ms, negative: none
dump_cmd(a) ==
    IF a.err # "" THEN Fatal("dump", a.err)
    ELSE [name |-> "dump", err |-> "", id |-> 0, buf |-> <<>>, n |-> 0,
          arg1 |-> IF a.arg1 > 0 THEN a.arg1 * 1000 ELSE a.arg1,
          arg2 |-> a.arg2]

configure_dump(str) == dump_cmd(twoargs(str, 3, -1, 24 * 60 * 60))

sleep_cmd(a) ==
    IF a.err # "" THEN Fatal("sleep", a.err)
    ELSE [name |-> "sleep", err |-> "", id |-> 0, buf |-> <<>>, n |-> 0,
          arg1 |-> a.arg1, arg2 |-> a.arg2]

configure_sleep(str) == sleep_cmd(twoargs(str, 1, 0, 255))

\* the chain of comparisons; cmd is the token after temp-
configure_chain(tok, cmd, perm, fb) ==
    IF streq(cmd, S_free) THEN Cmd("free", mx_cmd(fb, perm + 1, 0, 0))
    ELSE IF streq(cmd, S_click) THEN Cmd("click", mx_cmd(fb, perm + 2, 0, 0))
    ELSE IF strneq(cmd, S_manual, 6) THEN configure_manual(cmd, perm, fb)
    ELSE IF strneq(cmd, S_auto, 4) THEN configure_auto(cmd, perm, fb)
    ELSE IF strneq(tok, S_soft_free, 9)
    THEN configure_soft("soft-free", Drop(tok, 9), 3, fb)
    ELSE IF strneq(tok, S_soft_click, 10)
    THEN configure_soft("soft-click", Drop(tok, 10), 4, fb)
    ELSE IF strneq(tok, S_reconnect, 9) THEN configure_reconnect(Drop(tok, 9))
    ELSE IF strneq(tok, S_mode, 4) THEN configure_query_cmd("mode", 8, fb)
    ELSE IF strneq(tok, S_battery, 7) THEN configure_query_cmd("battery", 13, fb)
    ELSE IF strneq(tok, S_raw, 3) THEN configure_raw(Drop(tok, 3))
    ELSE IF strneq(tok, S_query, 5) THEN configure_query(Drop(tok, 5))
    ELSE IF strneq(tok, S_dump, 4) THEN configure_dump(Drop(cmd, 4))
    ELSE IF strneq(tok, S_sleep, 5) THEN configure_sleep(Drop(tok, 5))
    ELSE Fatal("", "unknown option")

\* configure looking at the token after temp- in every comparison
configure_token_strip_all(tok, fb) ==
    IF strneq(tok, S_temp, 5)
    THEN configure_chain(Drop(tok, 5), Drop(tok, 5), 0, fb)
    ELSE configure_chain(tok, tok, 128, fb)

configure_token(tok, fb) ==
    IF strneq(tok, S_temp, 5)
    THEN configure_chain(tok, Drop(tok, 5), 0, fb)
    ELSE configure_chain(tok, tok, 128, fb)

\* the commands that start with send_report
Senders == {"free", "click", "manual", "auto", "soft-free", "soft-click",
            "reconnect", "mode", "battery", "raw"}

\* the statement that follows the parsing of a token
configure_first(name) ==
    IF name \in Senders THEN "send_usages"
    ELSE IF name = "query" THEN "query_request"
    ELSE IF name = "dump" THEN "dump"
    ELSE "configure_next"

\* configure_do noting the error of a bad token and going on to the next one
configure_do_keep_going(tok, d) ==
    /\ argv' = IF i <= Len(argv) THEN argv ELSE Append(argv, tok)
    /\ cur' = d
    /\ IF d.err # ""
       THEN /\ err' = d.err
            /\ exitcode' = 1
            /\ pc' = "configure_next"
       ELSE /\ pc' = configure_first(d.name)
            /\ UNCHANGED <<err, exitcode>>

\* one token: d is what the parsing of tok came to
configure_do(tok, d) ==
    /\ argv' = IF i <= Len(argv) THEN argv ELSE Append(argv, tok)
    /\ cur' = d
    /\ IF d.err # ""
       THEN fatal(d.err)
       ELSE /\ pc' = configure_first(d.name)
            /\ UNCHANGED <<err, exitcode>>

configure ==
    /\ pc = "configure"
    /\ IF i >= argc
       THEN /\ pc' = "close_dev"
            /\ UNCHANGED <<argv, cur, err, exitcode>>
       ELSE \E tok \in IF i <= Len(argv) THEN {argv[i]} ELSE Tokens :
               configure_do(tok, configure_token(tok, first_byte))
    /\ res' = <<>>
    /\ ndump' = 0
    /\ UNCHANGED <<argc, i, first_byte, path, idx, fd, open, dinfo, handle, sent,
                   ops, out>>
    /\ UNCHANGED flush

\* the end of a turn of the loop: ++i
\* configure closing the handle at the end of every turn of its loop
configure_next_close ==
    /\ pc = "configure_next"
    /\ i' = i + 1
    /\ cur' = NoCmd
    /\ pc' = "configure"
    /\ open' = open \ {handle}
    /\ ops' = Append(ops, [op |-> "close", ok |-> TRUE])
    /\ UNCHANGED <<argc, argv, first_byte, path, idx, fd, dinfo, handle,
                   res, ndump, sent, out, err, exitcode>>
    /\ flush' = "none"

configure_next ==
    /\ pc = "configure_next"
    /\ i' = i + 1
    /\ cur' = NoCmd
    /\ pc' = "configure"
    /\ UNCHANGED <<argc, argv, first_byte, path, idx, fd, open, dinfo, handle,
                   res, ndump, sent, ops, out, err, exitcode>>
    /\ flush' = "none"

(***************************************************************************)
(* What the device answers to HIDIOCGUSAGES.  A command line with one      *)
(* token is checked against RichResponses, a longer one against            *)
(* FewResponses; any other length than 6 is the debug query's.             *)
(***************************************************************************)
Headers == { <<1, 129, 8>>, <<1, 129, 13>>, <<1, 128, 86>>, <<2, 129, 8>>,
             <<2, 129, 13>>, <<1, 1, 8>> }

Payloads == { <<42, 80, 48>>, <<42, 48, 80>>, <<42, 80, 80>>, <<99, 144, 144>>,
              <<7, 80, 119>>, <<0, 0, 1>>, <<129, 0, 0>> }

RichResponses == {h \o p : h \in Headers, p \in Payloads}

FewResponses == { <<1, 129, 8, 0, 0, 1>>, <<1, 129, 13, 42, 48, 80>>,
                  <<2, 129, 8, 0, 0, 1>> }

Responses(n) ==
    IF n = 6 THEN (IF argc = 2 THEN RichResponses ELSE FewResponses)
    ELSE {[k \in 1..n |-> v] : v \in {0, 171}}

(***************************************************************************)
(* send_report: HIDIOCSUSAGES, HIDIOCSREPORT, wait_report(fd, 3000).       *)
(***************************************************************************)
Op(name, ok) == [op |-> name, ok |-> ok]

\* send_report going on to the commit after a rejected HIDIOCSUSAGES
send_report_usages_go_on ==
    /\ pc = "send_usages"
    /\ \E ok \in BOOLEAN : ops' = Append(ops, Op("HIDIOCSUSAGES", ok))
    /\ pc' = "send_commit"
    /\ UNCHANGED <<argc, argv, i, first_byte, path, idx, fd, open, dinfo, handle,
                   cur, res, ndump, sent, out, err, exitcode>>
    /\ UNCHANGED flush

send_report_usages ==
    /\ pc = "send_usages"
    /\ \E ok \in BOOLEAN :
          /\ ops' = Append(ops, Op("HIDIOCSUSAGES", ok))
          /\ IF ok
             THEN /\ pc' = "send_commit"
                  /\ UNCHANGED <<err, exitcode>>
             ELSE fatal("send report, HIDIOCSUSAGES")
    /\ UNCHANGED <<argc, argv, i, first_byte, path, idx, fd, open, dinfo, handle,
                   cur, res, ndump, sent, out>>
    /\ UNCHANGED flush

\* the report the device layer is handed: id, the n values, and the token
Report(c, tok) == [tok |-> tok, id |-> c.id, buf |-> c.buf, n |-> c.n]

\* send_report going on after a rejected HIDIOCSREPORT
send_report_commit_ignore ==
    /\ pc = "send_commit"
    /\ \E ok \in BOOLEAN :
          /\ ops' = Append(ops, Op("HIDIOCSREPORT", ok))
          /\ sent' = IF ok THEN Append(sent, Report(cur, i)) ELSE sent
    /\ pc' = "send_wait"
    /\ UNCHANGED <<argc, argv, i, first_byte, path, idx, fd, open, dinfo, handle,
                   cur, res, ndump, out, err, exitcode>>
    /\ UNCHANGED flush

send_report_commit ==
    /\ pc = "send_commit"
    /\ \E ok \in BOOLEAN :
          /\ ops' = Append(ops, Op("HIDIOCSREPORT", ok))
          /\ IF ok
             THEN /\ sent' = Append(sent, Report(cur, i))
                  /\ pc' = "send_wait"
                  /\ UNCHANGED <<err, exitcode>>
             ELSE /\ fatal("send report, HIDIOCSREPORT")
                  /\ UNCHANGED sent
    /\ UNCHANGED <<argc, argv, i, first_byte, path, idx, fd, open, dinfo, handle,
                   cur, res, ndump, out>>
    /\ UNCHANGED flush

\* the statement send_report returns to
send_report_return(name) ==
    IF name \in {"mode", "battery"} THEN "query_request"
    ELSE IF name = "reconnect" THEN "reconnect"
    ELSE "configure_next"

\* wait_report: whatever arrives within the timeout is read and dropped
send_report_wait ==
    /\ pc = "send_wait"
    /\ ops' = Append(ops, Op("wait_report", TRUE))
    /\ pc' = send_report_return(cur.name)
    /\ UNCHANGED <<argc, argv, i, first_byte, path, idx, fd, open, dinfo, handle,
                   cur, res, ndump, sent, out, err, exitcode>>
    /\ flush' \in FlushOutcomes

reconnect_text == <<"Reconnection initiated", " - Turn off the mouse",
                    " - Press and hold the left mouse button",
                    " - Turn on the mouse",
                    " - Press the right button 5 times",
                    " - Release the left mouse button">>

\* reconnect, after its send_report: the instructions and wait_report(60000)
reconnect ==
    /\ pc = "reconnect"
    /\ out' = out \o [k \in 1..Len(reconnect_text) |-> Line(i, reconnect_text[k])]
    /\ ops' = Append(ops, Op("wait_report", TRUE))
    /\ pc' = "configure_next"
    /\ UNCHANGED <<argc, argv, i, first_byte, path, idx, fd, open, dinfo, handle,
                   cur, res, ndump, sent, err, exitcode>>
    /\ flush' \in FlushOutcomes

(***************************************************************************)
(* query_report: HIDIOCGREPORT, wait_report(fd, 3000), HIDIOCGUSAGES, and  *)
(* what the caller prints from the values read.                            *)
(***************************************************************************)
query_report_request ==
    /\ pc = "query_request"
    /\ \E ok \in BOOLEAN :
          /\ ops' = Append(ops, Op("HIDIOCGREPORT", ok))
          /\ IF ok
             THEN /\ pc' = "query_wait"
                  /\ UNCHANGED <<err, exitcode>>
             ELSE fatal("query report, HIDIOCGREPORT")
    /\ UNCHANGED <<argc, argv, i, first_byte, path, idx, fd, open, dinfo, handle,
                   cur, res, ndump, sent, out>>
    /\ UNCHANGED flush

query_report_wait ==
    /\ pc = "query_wait"
    /\ ops' = Append(ops, Op("wait_report", TRUE))
    /\ pc' = "query_usages"
    /\ UNCHANGED <<argc, argv, i, first_byte, path, idx, fd, open, dinfo, handle,
                   cur, res, ndump, sent, out, err, exitcode>>
    /\ flush' \in FlushOutcomes

\* the mode line
mode_text(buf) == IF buf[6] % 2 = 1 THEN "click-by-click" ELSE "free spinning"

\* the status taken from the byte before the last
battery_status_byte4(buf) ==
    IF buf[5] = 48 THEN "running on battery"
    ELSE IF buf[5] = 80 THEN "charging"
    ELSE IF buf[5] = 144 THEN "fully charged"
    ELSE "status " \o Fmt02x(buf[5])

\* the battery status
battery_status(buf) ==
    IF buf[6] = 48 THEN "running on battery"
    ELSE IF buf[6] = 80 THEN "charging"
    ELSE IF buf[6] = 144 THEN "fully charged"
    ELSE "status " \o Fmt02x(buf[6])

\* the battery line
battery_text(buf) == "battery level " \o FmtD(buf[4]) \o "%, " \o battery_status(buf)

RECURSIVE query_values(_, _)
query_values(buf, j) ==
    IF j > Len(buf) THEN "" ELSE " " \o Fmt02x(buf[j]) \o query_values(buf, j + 1)

\* the debug query's line
query_text(id, buf) == "report " \o Fmt02x(id) \o ":" \o query_values(buf, 1)

\* the line printed once the values are read
answer_text(c, r) ==
    IF c.name = "mode"
    THEN IF mx_query_ok(c.arg1, r) THEN mode_text(r) ELSE mx_query_bad(r)
    ELSE IF c.name = "battery"
    THEN IF mx_query_ok(c.arg1, r) THEN battery_text(r) ELSE mx_query_bad(r)
    ELSE query_text(c.arg1, r)

answer_lines(c, r, tok) == <<Line(tok, answer_text(c, r))>>

\* mx_query sending the query again after a bad answer
query_report_usages_retry ==
    /\ pc = "query_usages"
    /\ \E ok \in BOOLEAN :
          /\ ops' = Append(ops, Op("HIDIOCGUSAGES", ok))
          /\ IF ok
             THEN \E r \in Responses(cur.n) :
                     /\ res' = r
                     /\ out' = out \o answer_lines(cur, r, i)
                     /\ pc' = IF cur.name \in {"mode", "battery"} /\
                                 ~mx_query_ok(cur.arg1, r)
                              THEN "send_usages" ELSE "configure_next"
                     /\ UNCHANGED <<err, exitcode>>
             ELSE /\ fatal("query report, HIDIOCGUSAGES")
                  /\ UNCHANGED <<res, out>>
    /\ UNCHANGED <<argc, argv, i, first_byte, path, idx, fd, open, dinfo, handle,
                   cur, ndump, sent>>
    /\ UNCHANGED flush

query_report_usages ==
    /\ pc = "query_usages"
    /\ \E ok \in BOOLEAN :
          /\ ops' = Append(ops, Op("HIDIOCGUSAGES", ok))
          /\ IF ok
             THEN \E r \in Responses(cur.n) :
                     /\ res' = r
                     /\ out' = out \o answer_lines(cur, r, i)
                     /\ pc' = "configure_next"
                     /\ UNCHANGED <<err, exitcode>>
             ELSE /\ fatal("query report, HIDIOCGUSAGES")
                  /\ UNCHANGED <<res, out>>
    /\ UNCHANGED <<argc, argv, i, first_byte, path, idx, fd, open, dinfo, handle,
                   cur, ndump, sent>>
    /\ UNCHANGED flush

(***************************************************************************)
(* dump: print the events read until wait_for_input times out or fails.    *)
(***************************************************************************)
dump ==
    /\ pc = "dump"
    /\ \/ /\ ndump < MaxDump
          /\ ndump' = ndump + 1
          /\ ops' = ops \o <<Op("select", TRUE), Op("read", TRUE)>>
          /\ \E full \in BOOLEAN :
                out' = IF full
                       THEN Append(out, Line(i, "read: type, id, field, usage, code, value"))
                       ELSE out
          /\ UNCHANGED pc
       \/ /\ \E why \in {"timeout", "failed"} :
                /\ why = "timeout" => cur.arg1 >= 0
                /\ ops' = Append(ops, Op("select", why = "timeout"))
          /\ pc' = "configure_next"
          /\ UNCHANGED <<ndump, out>>
    /\ UNCHANGED <<argc, argv, i, first_byte, path, idx, fd, open, dinfo, handle,
                   cur, res, sent, err, exitcode>>
    /\ UNCHANGED flush

(***************************************************************************)
(* main, after configure: close_dev(handle); exit(0).                      *)
(***************************************************************************)
close_dev ==
    /\ pc = "close_dev"
    /\ open' = open \ {handle}
    /\ ops' = Append(ops, Op("close", TRUE))
    /\ exitcode' = 0
    /\ pc' = "exit"
    /\ UNCHANGED <<argc, argv, i, first_byte, path, idx, fd, dinfo, handle, cur,
                   res, ndump, sent, out, err>>
    /\ UNCHANGED flush

Next ==
    \/ main
    \/ open_dev_open
    \/ open_dev_ident
    \/ open_dev_close
    \/ trouble_shooting
    \/ init_dev_fcntl
    \/ init_dev_flag
    \/ configure
    \/ configure_next
    \/ send_report_usages
    \/ send_report_commit
    \/ send_report_wait
    \/ reconnect
    \/ query_report_request
    \/ query_report_wait
    \/ query_report_usages
    \/ dump
    \/ close_dev

Spec == Init /\ [][Next]_vars

(***************************************************************************)
(* Properties.                                                             *)
(***************************************************************************)
Last(s) == s[Len(s)]

\* the reports committed, and the lines printed, while token k was carried out
ReportsFor(k) == SelectSeq(sent, LAMBDA r : r.tok = k)
LinesFor(k) == SelectSeq(out, LAMBDA l : l.tok = k)

\* token i has been read and parsed
Dispatched == i \in 1..Len(argv) /\ pc # "configure"

\* token i has been carried out to its end
Completed == pc = "configure_next"

HasTemp(tok) == Len(tok) >= 5 /\ SubSeq(tok, 1, 5) = S_temp
Stripped(tok) == IF HasTemp(tok) THEN Drop(tok, 5) ELSE tok
StartsWith(tok, lit) == Len(tok) >= Len(lit) /\ SubSeq(tok, 1, Len(lit)) = lit

ArgErrors == {"unknown option", "out of range", "bad argument", "malformed argument"}

ModeNames == {"free", "click", "manual", "auto"}
SoftNames == {"soft-free", "soft-click"}

\* the text a mode command's token starts with
NameText(name) ==
    CASE name = "free" -> S_free
      [] name = "click" -> S_click
      [] name = "manual" -> S_manual
      [] name = "auto" -> S_auto
      [] name = "soft-free" -> S_soft_free
      [] name = "soft-click" -> S_soft_click

BaseOpcodes(name) ==
    CASE name = "free" -> {1}
      [] name = "click" -> {2}
      [] name = "manual" -> {7, 8}
      [] name = "auto" -> {5}
      [] name = "soft-free" -> {3}
      [] name = "soft-click" -> {4}

\* C1: a validated free, click, manual or auto token (with or without
\* temp-) sends exactly one report 0x10 of 6 values
\* [leading, 0x80, 0x56, opcode, p1, p2], leading being the byte of the
\* selected device (2 for the MX-5500, else 1) and opcode the base opcode,
\* plus 0x80 unless the token has the temp- prefix; soft-free and soft-click
\* send opcode 3 and 4 as they are.
C1_ModeFrame ==
    (Completed /\ cur.name \in ModeNames \cup SoftNames) =>
        LET rs == ReportsFor(i)
            tok == argv[i]
        IN  /\ Len(rs) = 1
            /\ rs[1].id = 16
            /\ rs[1].n = 6
            /\ Len(rs[1].buf) = 6
            /\ rs[1].buf[1] = first_byte
            /\ first_byte = (IF dinfo.product = MX_5500 THEN 2 ELSE 1)
            /\ rs[1].buf[2] = 128
            /\ rs[1].buf[3] = 86
            /\ IF cur.name \in SoftNames
               THEN /\ StartsWith(tok, NameText(cur.name))
                    /\ {rs[1].buf[4]} = BaseOpcodes(cur.name)
               ELSE /\ StartsWith(Stripped(tok), NameText(cur.name))
                    /\ rs[1].buf[4] - (IF HasTemp(tok) THEN 0 ELSE 128)
                           \in BaseOpcodes(cur.name)

\* a temporary manual command was sent to an MX-5500
C1_Witness ==
    /\ Completed
    /\ cur.name = "manual"
    /\ HasTemp(argv[i])
    /\ first_byte = 2
    /\ Len(ReportsFor(i)) = 1
    /\ ReportsFor(i)[1].buf[4] = 7

\* what a token sends when the device accepts it: nothing if its parsing
\* ends in fatal() or if its command sends no output report
ReportsOf(tok) ==
    IF configure_token(tok, first_byte).err = ""
       /\ configure_token(tok, first_byte).name \in Senders
    THEN <<[id |-> configure_token(tok, first_byte).id,
            buf |-> configure_token(tok, first_byte).buf,
            n |-> configure_token(tok, first_byte).n]>>
    ELSE <<>>

RECURSIVE ReportsUpTo(_)
ReportsUpTo(k) == IF k = 0 THEN <<>> ELSE ReportsUpTo(k - 1) \o ReportsOf(argv[k])

Untagged(s) == [k \in 1..Len(s) |-> [id |-> s[k].id, buf |-> s[k].buf, n |-> s[k].n]]

\* C2: tokens are validated and applied one by one, in order: the reports
\* committed are those of the tokens read so far, in token order; a token
\* whose parsing fails ends the process with exit code 1 at once, and then
\* the reports sent are exactly those of the tokens before it, which were
\* all valid, nothing was sent for the failing token, and no later token
\* was read.
C2_ValidateAndApply ==
    /\ \A k \in 1..Len(sent) :
          /\ sent[k].tok \in 1..i
          /\ k < Len(sent) => sent[k].tok <= sent[k + 1].tok
    /\ (Dispatched /\ configure_token(argv[i], first_byte).err # "") =>
          (pc = "exit" /\ exitcode = 1 /\ err \in ArgErrors)
    /\ (pc = "exit" /\ exitcode = 1 /\ err \in ArgErrors) =>
          /\ i = Len(argv)
          /\ \A j \in 1..(i - 1) : configure_token(argv[j], first_byte).err = ""
          /\ Untagged(sent) = ReportsUpTo(i - 1)

\* a valid token was applied, the second token was rejected, and a third
\* token was never looked at
C2_Witness ==
    /\ pc = "exit"
    /\ exitcode = 1
    /\ err \in ArgErrors
    /\ i = 2
    /\ argc = 4
    /\ Len(sent) = 1

\* the commands with a declared range, and the field values tried
RangedNames == { [text |-> S_manual, max |-> 15], [text |-> S_auto, max |-> 50],
                 [text |-> S_soft_free, max |-> 255],
                 [text |-> S_soft_click, max |-> 255] }

FieldValues == {0, 1, 3, 5, 10, 15, 16, 20, 50, 51, 255, 256}

\* tok is a ranged command with one or two numeric fields, one out of range
RangeViolation(tok) ==
    \E c \in RangedNames :
        /\ StartsWith(Stripped(tok), c.text)
        /\ \E a \in FieldValues :
              \/ a > c.max /\ Stripped(tok) = c.text \o F1(a)
              \/ \E b \in FieldValues :
                    /\ a > c.max \/ b > c.max
                    /\ Stripped(tok) = c.text \o F2(a, b)

\* C3: a manual, auto, soft-free or soft-click token with a numeric field
\* outside the command's range (manual 0..15, auto 0..50, soft 0..255), be
\* it the first or the second field, ends the process with exit code 1
\* before anything is handed to the device for that token.
C3_RangeBeforeSend ==
    (Dispatched /\ RangeViolation(argv[i])) =>
        /\ pc = "exit"
        /\ exitcode = 1
        /\ ReportsFor(i) = <<>>
        /\ Last(ops).op \notin {"HIDIOCSUSAGES", "HIDIOCSREPORT"}

\* manual=3,16: the first field is in range, the second is not
C3_Witness ==
    /\ Dispatched
    /\ argv[i] = S_manual \o F2(3, 16)
    /\ err = "out of range"
    /\ exitcode = 1

\* the frame of the one report token i sent, without the permanence bit
FrameOf(k) == [ReportsFor(k)[1].buf EXCEPT
                  ![4] = @ - (IF HasTemp(argv[k]) THEN 0 ELSE 128)]

ManualFrame(a, b) ==
    /\ Len(ReportsFor(i)) = 1
    /\ FrameOf(i)[4] = (IF a = b THEN 8 ELSE 7)
    /\ FrameOf(i)[5] = (IF a = b THEN a ELSE a * 16 + b)
    /\ FrameOf(i)[6] = 0

\* C4: manual with buttons a, b in 0..15 (b = a when the second field is
\* left out, both 0 when there is no field) sends base opcode 8 with
\* param1 = a, param2 = 0 if a = b, and base opcode 7 with
\* param1 = a*16 + b, param2 = 0 if a # b; so manual=3,3 is sent as manual=3.
C4_Manual ==
    (Completed /\ cur.name = "manual") =>
        /\ Stripped(argv[i]) = S_manual => ManualFrame(0, 0)
        /\ \A a \in 0..15 :
              /\ Stripped(argv[i]) = S_manual \o F1(a) => ManualFrame(a, a)
              /\ \A b \in 0..15 :
                    Stripped(argv[i]) = S_manual \o F2(a, b) => ManualFrame(a, b)

\* manual=3,3 was sent with the one-button opcode
C4_Witness ==
    /\ Completed
    /\ argv[i] = S_manual \o F2(3, 3)
    /\ Len(ReportsFor(i)) = 1
    /\ ReportsFor(i)[1].buf = <<first_byte, 128, 86, 136, 3, 0>>

AutoFrame(x, y) ==
    /\ Len(ReportsFor(i)) = 1
    /\ FrameOf(i)[4] = 5
    /\ FrameOf(i)[5] = x
    /\ FrameOf(i)[6] = y

\* C5: auto sends base opcode 5 with param1 = up-speed and
\* param2 = down-speed: auto=x,y gives (x,y), auto=x gives (x,x) and auto
\* alone gives (0,0), for x, y in 0..50.
C5_Auto ==
    (Completed /\ cur.name = "auto") =>
        /\ Stripped(argv[i]) = S_auto => AutoFrame(0, 0)
        /\ \A x \in 0..50 :
              /\ Stripped(argv[i]) = S_auto \o F1(x) => AutoFrame(x, x)
              /\ \A y \in 0..50 :
                    Stripped(argv[i]) = S_auto \o F2(x, y) => AutoFrame(x, y)

\* auto=10 was sent with both speeds 10
C5_Witness ==
    /\ Completed
    /\ argv[i] = S_auto \o F1(10)
    /\ Len(ReportsFor(i)) = 1
    /\ ReportsFor(i)[1].buf = <<first_byte, 128, 86, 133, 10, 10>>

RecognizedNames == { S_free, S_click, S_manual, S_auto, S_soft_free,
                     S_soft_click, S_reconnect, S_mode, S_battery, S_raw,
                     S_query, S_dump, S_sleep }

\* C6 as claimed: every recognized command name T may carry temp-: the
\* token temp-T is never rejected as an unknown option and is dispatched to
\* the command of T.
C6_TempEverywhere ==
    (Dispatched /\ HasTemp(argv[i]) /\ Drop(argv[i], 5) \in RecognizedNames) =>
        /\ err # "unknown option"
        /\ cur.name = configure_token(Drop(argv[i], 5), first_byte).name

\* the token after temp- is a free, click, manual or auto token
TempOk(rest) ==
    \/ rest = S_free
    \/ rest = S_click
    \/ StartsWith(rest, S_manual)
    \/ StartsWith(rest, S_auto)

\* C6 amended: temp- is taken off for free, click, manual and auto only:
\* temp-T is then parsed as T and sends T's frame without the 0x80 bit of
\* the opcode; any other token starting with temp- (temp-soft-free,
\* temp-soft-click, temp-reconnect, temp-mode, temp-battery, temp-raw,
\* temp-query, temp-dump, temp-sleep among them) is an unknown option: exit
\* code 1 and no report.
C6_TempModesOnly ==
    (Dispatched /\ HasTemp(argv[i])) =>
        IF TempOk(Drop(argv[i], 5))
        THEN /\ cur.name = configure_token(Drop(argv[i], 5), first_byte).name
             /\ cur.err = configure_token(Drop(argv[i], 5), first_byte).err
             /\ cur.err = "" =>
                   cur.buf = [configure_token(Drop(argv[i], 5), first_byte).buf
                                 EXCEPT ![4] = @ - 128]
        ELSE /\ err = "unknown option"
             /\ pc = "exit"
             /\ exitcode = 1
             /\ ReportsFor(i) = <<>>

\* temp-soft-free was rejected as an unknown option
C6_Witness ==
    /\ Dispatched
    /\ argv[i] = S_temp \o S_soft_free
    /\ err = "unknown option"
    /\ exitcode = 1
    /\ sent = <<>>

ZeroArgNames == {S_free, S_click, S_reconnect, S_mode, S_battery}

\* a command name followed by text that is no field list of its arity
Malformed(tok) ==
    \E n \in RecognizedNames :
        /\ StartsWith(tok, n)
        /\ \/ tok = n \o <<"x">>
           \/ n \in ZeroArgNames /\ tok \in {n \o F1(1), n \o F2(1, 2)}
           \/ n \notin ZeroArgNames /\
                 tok \in { n \o <<"=", "3", "x">>, n \o <<",", "3">>,
                           n \o <<"=", "3", "=", "5">> }

\* C7: a command name followed by text that is not a well-formed field
\* list of the command's arity (trailing garbage, a wrong delimiter, any
\* text after a command without arguments) sends no report, and the token
\* ends with the process exiting with code 1.
C7_MalformedIsFatal ==
    (Dispatched /\ Malformed(argv[i])) =>
        /\ ReportsFor(i) = <<>>
        /\ pc \in {"configure_next", "exit"} => (pc = "exit" /\ exitcode = 1)

BadEcho(name, r) ==
    ~(r[1] = 1 /\ r[2] = 129 /\ r[3] = (IF name = "mode" THEN 8 ELSE 13))

ChannelOps == {"HIDIOCSUSAGES", "HIDIOCSREPORT", "HIDIOCGREPORT", "HIDIOCGUSAGES"}

\* C8: for a mode or battery token whose answer does not start with
\* 1, 0x81, sub-opcode (0x08 mode, 0x0d battery), whatever the leading byte
\* of the device is, only the "bad answer" line is printed and the process
\* goes on: a run that exits with 0 has carried out every token, and a run
\* that exits with 1 after the device was found does so on a bad token or a
\* failed report operation only.
C8_BadAnswerLocal ==
    /\ (Completed /\ cur.name \in {"mode", "battery"}) =>
          /\ exitcode = -1
          /\ Len(res) = 6
          /\ BadEcho(cur.name, res) =>
                LinesFor(i) = <<Line(i, "bad answer (" \o Fmt02x(res[1]) \o " "
                                        \o Fmt02x(res[2]) \o " "
                                        \o Fmt02x(res[3]) \o "...)")>>
          /\ ~BadEcho(cur.name, res) =>
                /\ Len(LinesFor(i)) = 1
                /\ LinesFor(i)[1].text # mx_query_bad(res)
    /\ (pc = "exit" /\ exitcode = 0 /\ handle # -1) =>
          /\ i = argc
          /\ Len(argv) = argc - 1
    /\ (pc = "exit" /\ exitcode = 1 /\ handle # -1) =>
          \/ err \in ArgErrors
          \/ Last(ops).op \in ChannelOps /\ ~Last(ops).ok

\* an MX-5500 answered the first token, mode, with leading byte 2: bad
\* answer; the second token was sent all the same and the run ended with 0
C8_Witness ==
    /\ pc = "exit"
    /\ exitcode = 0
    /\ first_byte = 2
    /\ LinesFor(1) = <<Line(1, "bad answer (02 81 08...)")>>
    /\ Len(ReportsFor(2)) = 1

StatusText(v) ==
    IF v = 48 THEN "running on battery"
    ELSE IF v = 80 THEN "charging"
    ELSE IF v = 144 THEN "fully charged"
    ELSE "status " \o Fmt02x(v)

\* C9 as claimed: for a battery answer with a valid echo the level printed
\* is byte3 and the status printed is chosen by byte4.
C9_StatusByte4 ==
    (Completed /\ cur.name = "battery" /\ ~BadEcho("battery", res)) =>
        LinesFor(i) = <<Line(i, "battery level " \o ToString(res[4]) \o "%, "
                               \o StatusText(res[5]))>>

\* C9 amended: for a battery answer with a valid echo the level printed is
\* byte3 and the status printed is chosen by byte5: 0x30 "running on
\* battery", 0x50 "charging", 0x90 "fully charged", else "status <hex of
\* byte5>"; byte3 = 42 and byte5 = 0x50 print "battery level 42%,
\* charging" whatever byte4 holds.
C9_StatusByte5 ==
    (Completed /\ cur.name = "battery" /\ ~BadEcho("battery", res)) =>
        /\ LinesFor(i) = <<Line(i, "battery level " \o ToString(res[4]) \o "%, "
                                  \o StatusText(res[6]))>>
        /\ (res[4] = 42 /\ res[6] = 80) =>
              LinesFor(i)[1].text = "battery level 42%, charging"
        /\ (res[4] = 7 /\ res[6] = 119) =>
              LinesFor(i)[1].text = "battery level 7%, status 77"

\* level 42, byte4 = 0x30, byte5 = 0x50: "charging"
C9_Witness ==
    /\ Completed
    /\ cur.name = "battery"
    /\ res = <<1, 129, 13, 42, 48, 80>>
    /\ LinesFor(i) = <<Line(i, "battery level 42%, charging")>>

ListedOps == {"F_SETFL", "HIDIOCSFLAG"} \cup ChannelOps

\* C10 as claimed: every failed operation on an opened node (identity
\* query, set non-blocking, set flags, set usages, commit, request, read
\* usages) ends the process with exit code 1.
C10_EveryFailureFatal ==
    ( \/ \E k \in 1..Len(ops) : ops[k].op \in ListedOps /\ ~ops[k].ok
      \/ pc = "open_dev_close" /\ ~dinfo.ok ) =>
        (pc = "exit" /\ exitcode = 1)

\* C10 amended: a failed set-usages, commit, input-report request or read
\* of usages is fatal: exit code 1, and it is the last operation on the
\* handle.  A failed identity query only makes open_dev close the node and
\* go on with the scan, and a failed set-non-blocking or set-flags in
\* init_dev is only printed: neither ends the process.
C10_ChannelFailureFatal ==
    /\ \A k \in 1..Len(ops) :
          (ops[k].op \in ChannelOps /\ ~ops[k].ok) =>
              (k = Len(ops) /\ pc = "exit" /\ exitcode = 1)
    /\ (pc = "open_dev_close" /\ ~dinfo.ok) => (exitcode = -1 /\ fd \in open)
    /\ \A k \in 1..Len(ops) :
          (ops[k].op \in {"F_SETFL", "HIDIOCSFLAG"} /\ ~ops[k].ok) =>
              \/ exitcode # 1
              \/ err \in ArgErrors
              \/ Last(ops).op \in ChannelOps /\ ~Last(ops).ok

\* both steps of init_dev failed, the run went on, and a later read of the
\* usages failed and ended it
C10_Witness ==
    /\ pc = "exit"
    /\ exitcode = 1
    /\ Len(ops) > 2
    /\ ops[1] = Op("F_SETFL", FALSE)
    /\ ops[2] = Op("HIDIOCSFLAG", FALSE)
    /\ Last(ops) = Op("HIDIOCGUSAGES", FALSE)

Whitelist == {50458, 50469, 50972}

\* the identity d is that of a device revoco drives
Matches(d) == d.ok /\ d.vendor = 1133 /\ d.product \in Whitelist

\* one step of the scan, seen as a step of the whole program
C11_ScanStep ==
    /\ (pc = "main" /\ pc' = "open_dev") => (path' = 1 /\ idx' = 0)
    /\ (pc \in {"open_dev", "open_dev_close"} /\ pc' = "open_dev") =>
          \/ path' = path /\ idx' = idx + 1 /\ idx' < 16
          \/ path = 1 /\ idx = 15 /\ path' = 2 /\ idx' = 0
    /\ (pc \in {"open_dev", "open_dev_close"} /\ pc' = "trouble_shooting") =>
          (path = 2 /\ idx = 15)
    /\ (pc = "open_dev_ident" /\ Matches(dinfo')) =>
          (handle' = fd /\ fd \in open /\ pc' = "init_dev_fcntl")
    /\ (pc = "open_dev_ident" /\ ~Matches(dinfo')) =>
          (handle' = -1 /\ pc' = "open_dev_close")
    /\ handle # -1 => (open' \subseteq open /\ first_byte' = first_byte
                       /\ handle' = handle /\ dinfo' = dinfo)

\* C11: the scan goes through /dev/usb/hiddev0..15 (path 1) and then
\* /dev/hiddev0..15 (path 2), in this order and each node once; the first
\* node that opens and whose identity has the Logitech vendor and a product
\* of the whitelist is returned at once and no node is opened after it; from
\* then on first_byte is 2 if the product of the selected node is 0xc71c and
\* 1 otherwise, and it does not change.
C11_Selection ==
    /\ [](handle # -1 =>
            /\ Matches(dinfo)
            /\ handle \in open \/ pc = "exit"
            /\ first_byte = (IF dinfo.product = 50972 THEN 2 ELSE 1)
            /\ \A k \in 1..Len(sent) :
                  (~StartsWith(argv[sent[k].tok], S_raw) /\
                   ~StartsWith(argv[sent[k].tok], S_reconnect))
                      => sent[k].buf[1] = first_byte)
    /\ [](handle = -1 => (sent = <<>> /\ ops = <<>>))
    /\ [][C11_ScanStep]_vars

\* an MX-5500 was selected and a mode command went out with leading byte 2
C11_Witness ==
    /\ Completed
    /\ handle # -1
    /\ dinfo.product = 50972
    /\ \E k \in 1..Len(sent) : sent[k].buf = <<2, 128, 86, 129, 0, 0>>

ScanPcs == {"open_dev", "open_dev_ident", "open_dev_close", "trouble_shooting"}

\* C12: while the nodes are scanned at most one of them is open: whenever
\* open_dev is about to open a node none is open, so a node that did not
\* match (identity query failed, other vendor, product not in the
\* whitelist) has been closed before; and when the scan ends without a
\* match no node is left open.
C12_OneNodeOpen ==
    /\ pc \in ScanPcs => Cardinality(open) <= 1
    /\ pc \in {"open_dev", "trouble_shooting"} => (open = {} /\ fd = -1)
    /\ pc \in {"open_dev_ident", "open_dev_close"} => open = {fd}
    /\ pc = "open_dev_close" => (~Matches(dinfo) /\ handle = -1)

\* the scan ended without a match after a Logitech device that revoco does
\* not drive had been opened and looked at: no node is open
C12_Witness ==
    /\ pc = "trouble_shooting"
    /\ first_byte = 1
    /\ open = {}

NotFoundMessages == { "No Logitech MX-Revolution found",
                      "No permission to access hiddev",
                      "Hiddev kernel driver not found" }

\* C13: when neither path pattern yields a device, whatever the probe of
\* trouble_shooting meets (a node that opens, no permission, no node), the
\* run ends with exit code 1 and one of the three diagnoses, and nothing was
\* done on a handle: no init_dev, no report sent, no query, no token read.
C13_NotFoundIsFatal ==
    /\ pc = "trouble_shooting" => handle = -1
    /\ (handle = -1 /\ pc \notin ScanPcs \cup {"main"}) =>
          /\ pc = "exit"
          /\ exitcode = 0 => main_usage
          /\ exitcode # 0 =>
                /\ exitcode = 1
                /\ err \in NotFoundMessages
                /\ ops = <<>>
                /\ sent = <<>>
                /\ res = <<>>
                /\ i = 0
                /\ cur = NoCmd
                /\ Len(argv) = 1
    /\ err \in NotFoundMessages => (handle = -1 /\ exitcode = 1)

\* no node could be opened for lack of permission: exit 1, nothing done
C13_Witness ==
    /\ pc = "exit"
    /\ exitcode = 1
    /\ err = "No permission to access hiddev"
    /\ handle = -1
    /\ ops = <<>>
    /\ argv = <<S_free>>

\* the positions of ops at which the handle was closed
Closes == {k \in 1..Len(ops) : ops[k].op = "close"}

\* C14: a run that found its device holds that one handle and no other
\* descriptor until the end; the handle is closed at most once; a run that
\* exits with 0 after the search closed it exactly once, when configure had
\* gone through all argc - 1 tokens; the close is the last operation on the
\* handle, and a run that exits with 1 never closed it.
C14_HandleLifecycle ==
    /\ Cardinality(Closes) <= 1
    /\ \A k \in Closes : k = Len(ops) /\ pc = "exit" /\ exitcode = 0
    /\ (handle # -1 /\ pc # "exit") => open = {handle}
    /\ (handle # -1 /\ Closes = {}) => handle \in open
    /\ (handle # -1 /\ Closes # {}) => handle \notin open
    /\ (pc = "exit" /\ exitcode = 0 /\ handle # -1) =>
          /\ Cardinality(Closes) = 1
          /\ i = argc
          /\ Len(argv) = argc - 1
          /\ cur = NoCmd
    /\ (pc = "exit" /\ exitcode = 1) => Closes = {}
    /\ ops # <<>> => handle # -1

\* a run of two tokens ended with 0: the close is the last of the
\* operations, after the two reports
C14_Witness ==
    /\ pc = "exit"
    /\ exitcode = 0
    /\ argc = 3
    /\ Len(sent) = 2
    /\ Last(ops).op = "close"
    /\ handle \notin open

\* the command line has no argument, or -h or --help as its first one
AsksUsage == argc = 1 \/ (argc >= 2 /\ (argv[1] = <<"-", "h">> \/
                                        argv[1] = <<"-", "-", "h", "e", "l", "p">>))

\* C15: started without argument, or with -h or --help as first argument
\* (whatever follows it), revoco prints the usage text and exits with 0; no
\* node is ever opened and no report sent.  No other first argument, "-hx"
\* or "help" for one, does this.
C15_Usage ==
    /\ AsksUsage =>
          /\ pc \in {"main", "exit"}
          /\ open = {} /\ fd = -1 /\ handle = -1
          /\ sent = <<>> /\ ops = <<>>
          /\ Len(argv) <= 1
          /\ pc = "exit" => (exitcode = 0 /\ err = "" /\ out = <<Line(0, "usage")>>)
    /\ ~AsksUsage => \A k \in 1..Len(out) : out[k].text # "usage"

\* --help followed by two more arguments: usage, exit 0, nothing opened
C15_Witness ==
    /\ pc = "exit"
    /\ argc = 4
    /\ argv = <<S_help>>
    /\ exitcode = 0
    /\ out = <<Line(0, "usage")>>
    /\ open = {}

\* the answer starts with the echo of the set command
SetEcho(r) == Len(r) = 6 /\ r[1] = 1 /\ r[2] = 128 /\ r[3] = 86

\* C16: a mode query answered with the echo of the set command (bytes 1,
\* 0x80, 0x56) is taken as a valid answer: one line is printed for the
\* token, and it is not the "bad answer" diagnostic.
C16_SetEchoAccepted ==
    (Completed /\ cur.name = "mode" /\ SetEcho(res)) =>
        /\ Len(LinesFor(i)) = 1
        /\ LinesFor(i)[1].text # "bad answer (01 80 56...)"

\* the tokens configure has carried out to the end
CompletedTokens == 1..(IF pc = "configure_next" THEN i ELSE i - 1)

\* tok is a token that sends an output report
SendsReport(tok) ==
    \/ TempOk(Stripped(tok))
    \/ \E n \in {S_soft_free, S_soft_click, S_reconnect, S_mode, S_battery, S_raw} :
          StartsWith(tok, n)

\* tok is a token that asks for an input report and reads it back
AsksReport(tok) ==
    \E n \in {S_mode, S_battery, S_query} : StartsWith(tok, n)

\* the operations of this name that succeeded
Oks(name) == {k \in 1..Len(ops) : ops[k].op = name /\ ops[k].ok}

\* C17: a token that was carried out has caused exactly one commit of an
\* output report if it is a command (free, click, manual, auto, soft-free,
\* soft-click, reconnect, raw) or mode or battery, and none otherwise; mode
\* and battery (and the debug query) have caused exactly one request of the
\* input report and one read-back.  This holds whatever the answer was and
\* however the flushes went, so nothing is sent or asked a second time.  A
\* commit or a request is directly followed by its flush, and the next
\* set-usages comes only after a flush, a read-back or a dump.
C17_SingleShot ==
    /\ \A k \in CompletedTokens :
          Len(ReportsFor(k)) = (IF SendsReport(argv[k]) THEN 1 ELSE 0)
    /\ Dispatched => Len(ReportsFor(i)) <= 1
    /\ Cardinality(Oks("HIDIOCSREPORT")) = Len(sent)
    /\ Cardinality(Oks("HIDIOCSUSAGES")) \in {Len(sent), Len(sent) + 1}
    /\ Cardinality(Oks("HIDIOCGUSAGES")) =
          Cardinality({k \in CompletedTokens : AsksReport(argv[k])})
    /\ Cardinality(Oks("HIDIOCGREPORT")) - Cardinality(Oks("HIDIOCGUSAGES")) \in {0, 1}
    /\ \A k \in 1..(Len(ops) - 1) :
          /\ (ops[k].op \in {"HIDIOCSREPORT", "HIDIOCGREPORT"}) =>
                ops[k + 1].op = "wait_report"
          /\ ops[k + 1].op = "HIDIOCSUSAGES" =>
                ops[k].op \in {"HIDIOCSFLAG", "wait_report", "HIDIOCGUSAGES", "select"}
    /\ (Completed /\ cur.name \in Senders) => flush \in FlushOutcomes

\* the second token, mode, got a bad answer after a flush that timed out:
\* one report for each of the two tokens, one request, one read-back
C17_Witness ==
    /\ Completed
    /\ i = 2
    /\ argv = <<S_free, S_mode>>
    /\ flush = "timeout"
    /\ BadEcho("mode", res)
    /\ Len(sent) = 2
    /\ Cardinality(Oks("HIDIOCGREPORT")) = 1
    /\ Cardinality(Oks("HIDIOCGUSAGES")) = 1

\* the names of the operations k - n + 1 .. k of ops
OpNames(k, n) == [j \in 1..n |-> ops[k - n + j].op]

\* a flush changes nothing but the position in the program
C18_FlushStep ==
    pc \in {"send_wait", "query_wait"} =>
        (res' = res /\ out' = out /\ sent' = sent /\ cur' = cur /\ i' = i)

\* C18: in a send the commit comes right after an accepted set-usages and
\* the flush right after the commit; a rejected set-usages is the last
\* operation of the run.  For mode and battery the input report is asked
\* for only after the whole send of the query command (set-usages, commit,
\* flush), the read-back comes after the request and its flush, and the
\* answer is checked and printed only after that read-back.  A flush leaves
\* the response buffer, the output and the reports as they were, whatever
\* it drained.
C18_StepOrder ==
    /\ [](\A k \in 1..Len(ops) :
            /\ ops[k].op = "HIDIOCSREPORT" =>
                  (k > 1 /\ ops[k - 1] = Op("HIDIOCSUSAGES", TRUE))
            /\ (ops[k].op = "HIDIOCSUSAGES" /\ ~ops[k].ok) =>
                  (k = Len(ops) /\ pc = "exit" /\ exitcode = 1 /\ ReportsFor(i) = <<>>)
            /\ ops[k].op = "wait_report" =>
                  (k > 1 /\ ops[k - 1] \in {Op("HIDIOCSREPORT", TRUE),
                                            Op("HIDIOCGREPORT", TRUE),
                                            Op("wait_report", TRUE)})
            /\ ops[k].op = "HIDIOCGUSAGES" =>
                  (k > 2 /\ OpNames(k, 3) = <<"HIDIOCGREPORT", "wait_report",
                                              "HIDIOCGUSAGES">>))
    /\ []((cur.name \in {"mode", "battery"} /\
           pc \in {"query_request", "query_wait", "query_usages", "configure_next"}) =>
            /\ ReportsFor(i) = <<[tok |-> i, id |-> 16, n |-> 6,
                                  buf |-> <<first_byte, 129, cur.arg1, 0, 0, 0>>]>>
            /\ pc = "query_request" =>
                  OpNames(Len(ops), 3) = <<"HIDIOCSUSAGES", "HIDIOCSREPORT", "wait_report">>
            /\ pc # "configure_next" => (res = <<>> /\ LinesFor(i) = <<>>)
            /\ pc = "configure_next" =>
                  /\ OpNames(Len(ops), 6) = <<"HIDIOCSUSAGES", "HIDIOCSREPORT",
                                              "wait_report", "HIDIOCGREPORT",
                                              "wait_report", "HIDIOCGUSAGES">>
                  /\ Len(res) = 6
                  /\ Len(LinesFor(i)) = 1
                  /\ BadEcho(cur.name, res) <=>
                        LinesFor(i)[1].text = mx_query_bad(res))
    /\ [][C18_FlushStep]_vars

\* battery: both flushes done, the second one drained events, and the
\* answer read back afterwards is the one that was decoded
C18_Witness ==
    /\ Completed
    /\ cur.name = "battery"
    /\ flush = "events"
    /\ res = <<1, 129, 13, 99, 144, 144>>
    /\ LinesFor(i) = <<Line(i, "battery level 99%, fully charged")>>
    /\ Len(ops) = 8

\* the number of commas of a token: the fields that follow the first one
Commas(tok) == Cardinality({j \in 1..Len(tok) : tok[j] = ","})

\* C19: a report handed to send_report has a count of values in 0..255,
\* that many values, each in 0..255, and an id in 0..255; the count is 6
\* for every command but raw, and for raw, given without any field too, it
\* is the number of fields that follow the report id.
C19_ReportBounds ==
    pc = "send_usages" =>
        /\ cur.n \in 0..255
        /\ Len(cur.buf) = cur.n
        /\ \A j \in 1..Len(cur.buf) : cur.buf[j] \in 0..255
        /\ cur.id \in 0..255
        /\ cur.name # "raw" => cur.n = 6
        /\ cur.name = "raw" => cur.n = Commas(argv[i])

====
